---- MODULE Spec2Model ----
(***************************************************************************)
(* Verification model of the fund-of-funds weight pipeline:                *)
(*   - funds/vanguard_lifestrat/calculator.py  (tiered waterfall)          *)
(*   - shared/api/factset_client.py            (gateway with retry)        *)
(*   - orchestration/main_pipeline.py, single_fund_runner.py               *)
(*                                                                         *)
(* Weights are fixed-point numbers: one unit is 1/Scale of a percentage    *)
(* point, so 19.25 is 19250000 and the tolerance 0.0001 is 100 units.      *)
(* Floating-point division is modelled by integer division; the rounding   *)
(* error of a few units stays far below the tolerance, as it does for      *)
(* IEEE doubles.                                                           *)
(***************************************************************************)
EXTENDS Integers, Sequences, FiniteSets, TLC

VARIABLES
    \* --- calculator (calculate_weights) ---
    calc_pc,          \* "idle" | "input" | "done"
    portfolio_type,   \* the portfolio profile being calculated
    mcap,             \* market_data: symbol -> MarketCapIndex
    Weight,           \* df['Weight'] of the portfolio's rows: symbol -> weight or NaN
    \* --- gateway (FactSetClient.get_market_caps / get_returns) ---
    gw_pc,            \* "idle" | "attempt" | "returned" | "raised"
    gw_method,        \* "get_market_caps" | "get_returns"
    max_retries,      \* self.max_retries
    retry_delay,      \* self.retry_delay
    attempt,          \* loop variable of the retry loop
    gw_log,           \* the response and the outcome of every request made, in order
    gw_sleeps,        \* the argument of every time.sleep call, in order
    gw_error,         \* the exception that left the call (NoError before)
    gw_result,        \* the table the call returned (NoTable before, None for a bare return)
    \* --- orchestrator (DailyPipeline.run, FundRunner.run) ---
    pl_pc,            \* position in DailyPipeline.run
    funds,            \* the list returned by _get_fund_list
    fund_idx,         \* index of the fund the loop is at
    results,          \* self.results
    store,            \* output/{fund}/{date}/ : the files of the versioned store
    clock,            \* datetime.now() as HHMMSS ticks
    exit_code,        \* value returned by run() (NoExit before, and when run() raised)
    scen,             \* what the environment did in this run, and the store at its start
    \* --- validator (WeightValidator.validate, FundRunner._validate) ---
    val_pc,           \* "idle" | "input" | "validated" | "combined"
    val_df,           \* the weight table handed to the validator
    val_result,       \* the ValidationResult returned
    \* --- reconciliation (Reconciliator.compare_with_previous) ---
    rec_pc,           \* "idle" | "input" | "compared" | "swapped"
    rec_current,      \* the current table
    rec_previous,     \* the previous table
    rec_report,       \* compare_with_previous(current, previous)
    rec_swapped,      \* compare_with_previous(previous, current)
    \* --- versioned store (VersionedFileHandler) ---
    fh_pc,            \* "idle" | "ready" | "looked"
    fh_store,         \* output/{fund}/{date}/ for every fund and date
    fh_clock,         \* datetime.now() as HHMMSS ticks
    fh_saves,         \* every save_csv call made so far, in order
    fh_lookup,        \* the last get_previous_run call and what it returned
    \* --- FundRunner objects of several funds, their steps interleaved ---
    il_run,           \* per fund: the runner's position and the locals of run()
    il_store,         \* output/, shared by the runners
    il_clock,         \* datetime.now() as HHMMSS ticks
    il_shared,        \* the market_data and returns_data frames handed to every runner
    il_scen           \* the store and the frames at the start, and each fund's environment

calcVars == <<calc_pc, portfolio_type, mcap, Weight>>
gwVars   == <<gw_pc, gw_method, max_retries, retry_delay, attempt, gw_log, gw_sleeps,
             gw_error, gw_result>>
plVars   == <<pl_pc, funds, fund_idx, results, store, clock, exit_code, scen>>
valVars  == <<val_pc, val_df, val_result>>
recVars  == <<rec_pc, rec_current, rec_previous, rec_report, rec_swapped>>
fhVars   == <<fh_pc, fh_store, fh_clock, fh_saves, fh_lookup>>
ilVars   == <<il_run, il_store, il_clock, il_shared, il_scen>>
libVars  == <<valVars, recVars, fhVars, ilVars>>
vars     == <<calcVars, gwVars, plVars, libVars>>

-----------------------------------------------------------------------------
(* Bounds *)
MaxMcap == 3            \* market caps are drawn from 0..MaxMcap
MaxRetries == 3         \* retry_attempts is drawn from 0..MaxRetries
MaxDelay == 2           \* retry_delay_seconds is drawn from 1..MaxDelay
MaxRows == 3            \* a response holds at most MaxRows rows
MaxClock == 2           \* datetime.now() takes the values 1..MaxClock
MaxValRows == 2         \* rows of a validated table beyond its four base rows
MaxRecRows == 2         \* positions of the tables handed to the reconciliation
MaxSaves == 2           \* save_csv calls made on the versioned store

-----------------------------------------------------------------------------
(* Fixed-point numbers and NaN *)
Scale == 10 ^ 6
NaN == -2000000000      \* np.nan; never used in arithmetic, see the F-operators

IsNaN(x) == x = NaN
\* comparisons with NaN are False, as for IEEE floats
Lt(a, b) == (~IsNaN(a)) /\ (~IsNaN(b)) /\ a < b
Gt(a, b) == Lt(b, a)
Le(a, b) == (~IsNaN(a)) /\ (~IsNaN(b)) /\ a <= b
FAdd(a, b) == IF IsNaN(a) \/ IsNaN(b) THEN NaN ELSE a + b
FSub(a, b) == IF IsNaN(a) \/ IsNaN(b) THEN NaN ELSE a - b
\* alloc * (m / total): 0/0 is NaN (numpy float64 division, no exception)
Share(alloc, m, total) ==
    IF IsNaN(alloc) THEN NaN
    ELSE IF total = 0 THEN NaN
    ELSE (alloc * m) \div total
\* Python's min(a, b): b only if b < a;  max(a, b): b only if b > a
PyMin(a, b) == IF Lt(b, a) THEN b ELSE a
PyMax(a, b) == IF Gt(b, a) THEN b ELSE a

RECURSIVE SumOver(_, _)
SumOver(f, S) ==
    IF S = {} THEN 0
    ELSE LET s == CHOOSE x \in S : TRUE IN f[s] + SumOver(f, S \ {s})

\* pandas Series.sum(): NaN entries are skipped
RECURSIVE NanSum(_, _)
NanSum(f, S) ==
    IF S = {} THEN 0
    ELSE LET s == CHOOSE x \in S : TRUE
         IN (IF IsNaN(f[s]) THEN 0 ELSE f[s]) + NanSum(f, S \ {s})

\* Python's sum() over floats: NaN propagates
RECURSIVE FSum(_, _)
FSum(f, S) ==
    IF S = {} THEN 0
    ELSE LET s == CHOOSE x \in S : TRUE IN FAdd(f[s], FSum(f, S \ {s}))

-----------------------------------------------------------------------------
(* funds/vanguard_lifestrat/config.py *)
PORTFOLIO_CONFIGS ==
    [LSE20 |-> [equity_allocation |-> 20 * Scale, fixed_income_allocation |-> 80 * Scale,
                base_weight |-> 19250000],
     LSE40 |-> [equity_allocation |-> 40 * Scale, fixed_income_allocation |-> 60 * Scale,
                base_weight |-> 19250000],
     LSE60 |-> [equity_allocation |-> 60 * Scale, fixed_income_allocation |-> 40 * Scale,
                base_weight |-> 19250000],
     LSE80 |-> [equity_allocation |-> 80 * Scale, fixed_income_allocation |-> 20 * Scale,
                base_weight |-> 19250000]]

PortfolioTypes == DOMAIN PORTFOLIO_CONFIGS

FI_TIER_1 == {"LHMN34611"}
FI_TIER_3 == {"LHMN21140", "LHMN9913", "LHMN21153", "LHMN2004", "LHMN2002"}
EQ_TIER_1 == {"I00010"}
EQ_TIER_2 == {"I01018", "I01270"}
EQ_TIER_3 == {"I00586", "I27049", "I26152", "180948"}
EQ_TIER_4 == {"SP50"}

MARKET_CAP_REQUIRED_IDS == FI_TIER_3 \cup EQ_TIER_2 \cup EQ_TIER_3 \cup EQ_TIER_4
FIXED_WEIGHT_IDS == FI_TIER_1 \cup EQ_TIER_1
AllSymbols == MARKET_CAP_REQUIRED_IDS \cup FIXED_WEIGHT_IDS

\* shared/validation/weight_validator.py: default of sum_tolerance_abs (0.0001)
sum_tolerance_abs == 100

-----------------------------------------------------------------------------
(* calculator.py: calculate_fi_weights *)

\* first pass: weights[symbol] = remaining_allocation * (mcap / fi_tier_3_total_mcap)
FiUncapped(config, mc) ==
    LET total == SumOver(mc, FI_TIER_3)
        remaining_allocation == config.fixed_income_allocation - config.base_weight
    IN [s \in FI_TIER_3 |-> Share(remaining_allocation, mc[s], total)]

\* capping pass: capped_weights and total_capped
FiCapped(config, w) ==
    [s \in FI_TIER_3 |-> IF Gt(w[s], config.base_weight) THEN config.base_weight ELSE w[s]]

\* FiRedistributed with the operands of excess exchanged
FiRedistributed_SwappedExcess(config, mc, w) ==
    LET base_weight == config.base_weight
        pool == config.fixed_income_allocation - base_weight
        capped == FiCapped(config, w)
        total_capped == FSum(capped, FI_TIER_3)
        non_capped == {s \in FI_TIER_3 : Lt(w[s], base_weight)}
        total_non_capped == FSum(w, non_capped)
        nc_mcap == SumOver(mc, non_capped)
        excess == total_capped - pool
    IN IF Lt(total_capped, pool) /\ non_capped # {}
       THEN [s \in FI_TIER_3 |->
                IF s \in non_capped
                THEN IF Gt(total_non_capped, 0)
                     THEN capped[s] + (excess * mc[s]) \div nc_mcap
                     ELSE excess \div Cardinality(non_capped)
                ELSE capped[s]]
       ELSE capped

\* The single redistribution pass.  excess * (non_capped[s] / total_non_capped):
\* every uncapped weight is remaining_allocation * mcap / total, so the ratio
\* non_capped[s] / total_non_capped is mcap[s] / (market cap of the non-capped),
\* which keeps the products inside TLC's integer range.
FiRedistributed(config, mc, w) ==
    LET base_weight == config.base_weight
        pool == config.fixed_income_allocation - base_weight
        capped == FiCapped(config, w)
        total_capped == FSum(capped, FI_TIER_3)
        non_capped == {s \in FI_TIER_3 : Lt(w[s], base_weight)}
        total_non_capped == FSum(w, non_capped)
        nc_mcap == SumOver(mc, non_capped)
        excess == pool - total_capped
    IN IF Lt(total_capped, pool) /\ non_capped # {}
       THEN [s \in FI_TIER_3 |->
                IF s \in non_capped
                THEN IF Gt(total_non_capped, 0)
                     THEN capped[s] + (excess * mc[s]) \div nc_mcap
                     ELSE excess \div Cardinality(non_capped)
                ELSE capped[s]]
       ELSE capped

calculate_fi_weights(config, mc) ==
    LET w == FiUncapped(config, mc)
        capped_weights == FiRedistributed(config, mc, w)
    IN [s \in FI_TIER_1 \cup FI_TIER_3 |->
            IF s \in FI_TIER_1 THEN config.base_weight
            ELSE PyMin(capped_weights[s], config.base_weight)]

-----------------------------------------------------------------------------
(* calculator.py: calculate_equity_weights *)

Tier2Weights(config, mc) ==
    LET equity_tier_2_total_mcap == SumOver(mc, EQ_TIER_2)
    IN [s \in EQ_TIER_2 |->
            PyMin(config.base_weight,
                  Share(config.equity_allocation - config.base_weight,
                        mc[s], equity_tier_2_total_mcap))]

Tier3Weights(config, mc, t2) ==
    LET equity_tier_3_total_mcap == SumOver(mc, EQ_TIER_3)
        remaining_weight ==
            config.equity_allocation - (config.base_weight + t2["I01018"] + t2["I01270"])
    IN IF remaining_weight <= 0
       THEN [s \in EQ_TIER_3 |-> 0]
       ELSE [s \in EQ_TIER_3 |->
                PyMin(config.base_weight,
                      Share(remaining_weight, mc[s], equity_tier_3_total_mcap))]

\* SP50Weight that takes the overflow as soon as any tier-3 security is capped
SP50Weight_AnyCapped(config, t2, t3) ==
    IF \A s \in EQ_TIER_3 : Lt(t3[s], config.base_weight)
    THEN 0
    ELSE LET total_other_weights ==
                 config.base_weight + t2["I01018"] + t2["I01270"] + NanSum(t3, EQ_TIER_3)
         IN PyMax(0, config.equity_allocation - total_other_weights)

SP50Weight(config, t2, t3) ==
    IF Lt(t3["I00586"], config.base_weight)
    THEN 0
    ELSE LET total_other_weights ==
                 config.base_weight + t2["I01018"] + t2["I01270"] + NanSum(t3, EQ_TIER_3)
         IN PyMax(0, config.equity_allocation - total_other_weights)

calculate_equity_weights(config, mc) ==
    LET t2 == Tier2Weights(config, mc)
        t3 == Tier3Weights(config, mc, t2)
    IN [s \in EQ_TIER_1 \cup EQ_TIER_2 \cup EQ_TIER_3 \cup EQ_TIER_4 |->
            IF s \in EQ_TIER_1 THEN config.base_weight
            ELSE IF s \in EQ_TIER_2 THEN t2[s]
            ELSE IF s \in EQ_TIER_3 THEN t3[s]
            ELSE SP50Weight(config, t2, t3)]

\* calculate_weights that leaves the fixed-weight rows at the column's initial NaN
calculate_weights_NoFixed(p, mc) ==
    LET config == PORTFOLIO_CONFIGS[p]
        fi == calculate_fi_weights(config, mc)
        eq == calculate_equity_weights(config, mc)
    IN [s \in AllSymbols |-> IF s \in FIXED_WEIGHT_IDS THEN NaN
                             ELSE IF s \in DOMAIN fi THEN fi[s] ELSE eq[s]]

\* calculate_weights: the Weight column of the portfolio's rows
calculate_weights(p, mc) ==
    LET config == PORTFOLIO_CONFIGS[p]
        fi == calculate_fi_weights(config, mc)
        eq == calculate_equity_weights(config, mc)
    IN [s \in AllSymbols |-> IF s \in DOMAIN fi THEN fi[s] ELSE eq[s]]

-----------------------------------------------------------------------------
(* The calculator as a state machine: calculate_weights on one portfolio.  *)
(* The fixed-income waterfall reads only the fixed-income market caps and  *)
(* the equity cascade only the equity ones, so the inputs vary one asset   *)
(* class at a time and hold the other at BaselineMcap.  SP50's market cap  *)
(* is fetched but never read by the calculation.                           *)
BaselineMcap == 1

McapValues == 0 .. MaxMcap

CalcInputs ==
    {[s \in MARKET_CAP_REQUIRED_IDS |-> IF s \in FI_TIER_3 THEN fi[s] ELSE BaselineMcap] :
        fi \in [FI_TIER_3 -> McapValues]}
    \cup {[s \in MARKET_CAP_REQUIRED_IDS |->
                IF s \in EQ_TIER_2 \cup EQ_TIER_3 THEN eq[s] ELSE BaselineMcap] :
            eq \in [EQ_TIER_2 \cup EQ_TIER_3 -> McapValues]}

CalcIdle ==
    /\ calc_pc = "idle"
    /\ portfolio_type = "LSE20"
    /\ mcap = [s \in MARKET_CAP_REQUIRED_IDS |-> BaselineMcap]
    /\ Weight = [s \in AllSymbols |-> NaN]

CalcInit ==
    /\ calc_pc = "input"
    /\ portfolio_type \in PortfolioTypes
    /\ mcap \in CalcInputs
    /\ Weight = [s \in AllSymbols |-> NaN]       \* df['Weight'] = np.nan

CalculateWeights ==
    /\ calc_pc = "input"
    /\ Weight' = calculate_weights(portfolio_type, mcap)
    /\ calc_pc' = "done"
    /\ UNCHANGED <<portfolio_type, mcap>>
    /\ UNCHANGED <<gwVars, plVars, libVars>>

-----------------------------------------------------------------------------
(* shared/api/factset_client.py *)

\* ids of the request, and an id the request did not ask for
RequestedIds == {"id1", "id2"}
ForeignId == "idX"

\* what requests.get can produce for one attempt
ResponseKinds ==
    {"connection_error", "timeout", "http_401", "http_404", "invalid_json",
     "no_data_field", "data"}

\* a cell of the formula column: a number, JSON null, or text
CellValues == {"num", "null", "text"}
RowValues == [id : RequestedIds \cup {ForeignId}, val : CellValues]

RECURSIVE SeqsUpTo(_, _)
SeqsUpTo(S, n) ==
    IF n = 0 THEN {<<>>}
    ELSE LET shorter == SeqsUpTo(S, n - 1)
         IN shorter \cup {Append(q, x) : q \in {r \in shorter : Len(r) = n - 1}, x \in S}

Responses ==
    {[kind |-> k, rows |-> <<>>] : k \in ResponseKinds \ {"data"}}
        \cup {[kind |-> "data", rows |-> r] : r \in SeqsUpTo(RowValues, MaxRows)}

NoError == [type |-> "none", missing |-> {}]
NoTable == <<[id |-> "no_table", val |-> "none"]>>
None == <<[id |-> "None", val |-> "none"]>>

Raise(t) == [exc |-> [type |-> t, missing |-> {}], table |-> NoTable]
RaiseMissing(t, ids) == [exc |-> [type |-> t, missing |-> ids], table |-> NoTable]
Return(tbl) == [exc |-> NoError, table |-> tbl]

\* pd.to_numeric(errors='coerce'): null and text become NaN
ToNumeric(v) == IF v = "num" THEN "num" ELSE "NaN"
Coerced(rows) == [i \in 1 .. Len(rows) |-> [id |-> rows[i].id, val |-> ToNumeric(rows[i].val)]]
Symbols(rows) == {rows[i].id : i \in 1 .. Len(rows)}

\* the request and the parse of the body, common to the three fetch methods
Transport(resp) ==
    CASE resp.kind = "http_401" -> "APIAuthError"
      [] resp.kind = "http_404" -> "HTTPError"             \* response.raise_for_status()
      [] resp.kind = "connection_error" -> "APIConnectionError"
      [] resp.kind = "timeout" -> "APIConnectionError"
      [] resp.kind = "invalid_json" -> "APIConnectionError"
      [] resp.kind = "no_data_field" -> "DataNotAvailableError"
      [] OTHER -> "none"

_fetch_with_validation(ids, resp) ==
    LET df == Coerced(resp.rows)
        nulls == {df[i].id : i \in {j \in 1 .. Len(df) : df[j].val = "NaN"}}
    IN IF Transport(resp) # "none" THEN Raise(Transport(resp))
       ELSE IF Len(df) = 0 THEN Raise("DataNotAvailableError")
       ELSE IF nulls # {} THEN RaiseMissing("MissingDataError", nulls)
       ELSE IF Len(df) # Cardinality(ids)
            THEN RaiseMissing("MissingDataError", ids \ Symbols(df))
       ELSE Return(df)

_fetch_returns_with_validation(ids, resp) ==
    LET df == resp.rows
    IN IF Transport(resp) # "none" THEN Raise(Transport(resp))
       ELSE IF Len(df) = 0 THEN Raise("DataNotAvailableError")
       ELSE IF Len(df) # Cardinality(ids) THEN Raise("DataNotAvailableError")
       ELSE IF \E i \in 1 .. Len(df) : df[i].id \notin ids
            THEN Raise("DataNotAvailableError")
       ELSE Return(Coerced(df))

\* a backoff that starts one doubling too far
WaitTime_Doubled(delay, k) == delay * (2 ^ k)

\* wait_time = self.retry_delay * (2 ** (attempt - 1))
WaitTime(delay, k) == delay * (2 ^ (k - 1))

\* except (APIConnectionError, requests.Timeout)
CaughtByRetry(exc) == exc.type = "APIConnectionError"

\* if attempt == self.max_retries: raise
LastAttempt(k, n) == k = n

GwIdle ==
    /\ gw_pc = "idle"
    /\ gw_method = "get_market_caps"
    /\ max_retries = 0
    /\ retry_delay = 1
    /\ attempt = 1
    /\ gw_log = <<>>
    /\ gw_sleeps = <<>>
    /\ gw_error = NoError
    /\ gw_result = NoTable

GwInit ==
    /\ gw_pc = "attempt"
    /\ gw_method \in {"get_market_caps", "get_returns"}
    /\ max_retries \in 0 .. MaxRetries
    /\ retry_delay \in 1 .. MaxDelay
    /\ attempt = 1                        \* range(1, self.max_retries + 1)
    /\ gw_log = <<>>
    /\ gw_sleeps = <<>>
    /\ gw_error = NoError
    /\ gw_result = NoTable

\* one iteration of the retry loop around a fetch that ended with r
RetryIteration(resp, r) ==
    /\ gw_log' = Append(gw_log, [kind |-> resp.kind, rows |-> resp.rows, exc |-> r.exc.type])
    /\ IF r.exc = NoError
       THEN /\ gw_pc' = "returned"
            /\ gw_result' = r.table
            /\ UNCHANGED <<attempt, gw_sleeps, gw_error>>
       ELSE IF CaughtByRetry(r.exc) /\ ~LastAttempt(attempt, max_retries)
       THEN /\ gw_sleeps' = Append(gw_sleeps, WaitTime(retry_delay, attempt))
            /\ attempt' = attempt + 1
            /\ UNCHANGED <<gw_pc, gw_error, gw_result>>
       ELSE /\ gw_pc' = "raised"
            /\ gw_error' = r.exc
            /\ UNCHANGED <<attempt, gw_sleeps, gw_result>>
    /\ UNCHANGED <<gw_method, max_retries, retry_delay>>
    /\ UNCHANGED <<calcVars, plVars, libVars>>

get_market_caps ==
    /\ gw_pc = "attempt"
    /\ gw_method = "get_market_caps"
    /\ attempt <= max_retries
    /\ \E resp \in Responses :
          RetryIteration(resp, _fetch_with_validation(RequestedIds, resp))

get_returns ==
    /\ gw_pc = "attempt"
    /\ gw_method = "get_returns"
    /\ attempt <= max_retries
    /\ \E resp \in Responses :
          RetryIteration(resp, _fetch_returns_with_validation(RequestedIds, resp))

\* the for loop ends without a return or a raise: the method returns None
RetryLoopEnds ==
    /\ gw_pc = "attempt"
    /\ attempt > max_retries
    /\ gw_pc' = "returned"
    /\ gw_result' = None
    /\ UNCHANGED <<gw_method, max_retries, retry_delay, attempt, gw_log, gw_sleeps, gw_error>>
    /\ UNCHANGED <<calcVars, plVars, libVars>>

-----------------------------------------------------------------------------
(* Weight tables: a DataFrame is a sequence of rows, a row has the          *)
(* 'Benchmark ID' (portfolio, symbol) and the 'Weight'.                     *)

Row(id, w) == [id |-> id, Weight |-> w]
\* a selection that hands every row to every portfolio
RowsOf_Whole(df, port) == df

\* df[df['Benchmark ID'].str.contains(f'{portfolio_type}_')]: the ids are
\* '{portfolio}_{symbol}' and no configured portfolio name followed by '_' is
\* part of another id, so a row is selected iff its portfolio part is port
RowsOf(df, port) == SelectSeq(df, LAMBDA r : r.id[1] = port)
Idx(df) == 1 .. Len(df)
IdsWhere(df, P(_)) == {df[i].id : i \in {j \in Idx(df) : P(df[j])}}

RECURSIVE SeqNanSum(_)
SeqNanSum(df) ==
    IF df = <<>> THEN 0
    ELSE (IF IsNaN(Head(df).Weight) THEN 0 ELSE Head(df).Weight) + SeqNanSum(Tail(df))

\* pandas Series.max(): NaN entries are skipped, NaN when nothing is left
RECURSIVE SeqNanMax(_)
SeqNanMax(df) ==
    IF df = <<>> THEN NaN
    ELSE LET rest == SeqNanMax(Tail(df))
             w == Head(df).Weight
         IN IF IsNaN(w) THEN rest
            ELSE IF IsNaN(rest) \/ w > rest THEN w ELSE rest

Abs(x) == IF x < 0 THEN -x ELSE x

-----------------------------------------------------------------------------
(* shared/validation/weight_validator.py *)

\* validation_rules.yaml as the test configuration sets it
ValidatorConfig == [ucits_cap |-> 19250000, sum_tolerance_abs |-> sum_tolerance_abs]
near_cap_band == 500000         \* the 0.5 of `ucits_cap - 0.5`

Finding(port, kind, ids) == [portfolio |-> port, kind |-> kind, ids |-> ids]

\* a validator that stops at the first failing check
validate_ShortCircuit(config, df, port) ==
    LET total_weight == SeqNanSum(df)
        cap == config.ucits_cap
        tol == config.sum_tolerance_abs
        violators == IdsWhere(df, LAMBDA r : Gt(r.Weight, cap + tol))
        negative == IdsWhere(df, LAMBDA r : Lt(r.Weight, 0))
        missing == IdsWhere(df, LAMBDA r : IsNaN(r.Weight))
        close_to_cap == IdsWhere(df, LAMBDA r : Gt(r.Weight, cap - near_cap_band)
                                                 /\ Le(r.Weight, cap))
        errors ==
            IF Abs(total_weight - 100 * Scale) > tol THEN <<Finding(port, "sum", {})>>
            ELSE IF violators # {} THEN <<Finding(port, "ucits", violators)>>
            ELSE IF negative # {} THEN <<Finding(port, "negative", negative)>>
            ELSE IF missing # {} THEN <<Finding(port, "missing", missing)>>
            ELSE <<>>
        warnings ==
            IF close_to_cap # {} THEN <<Finding(port, "near_cap", close_to_cap)>> ELSE <<>>
        metrics ==
            [total_weight |-> total_weight,
             max_weight |-> SeqNanMax(df),
             num_positions |-> Len(df),
             num_negative |-> Cardinality({i \in Idx(df) : Lt(df[i].Weight, 0)}),
             num_missing |-> Cardinality({i \in Idx(df) : IsNaN(df[i].Weight)})]
    IN [is_valid |-> errors = <<>>, errors |-> errors, warnings |-> warnings,
        metrics |-> metrics]

validate(config, df, port) ==
    LET total_weight == SeqNanSum(df)
        cap == config.ucits_cap
        tol == config.sum_tolerance_abs
        violators == IdsWhere(df, LAMBDA r : Gt(r.Weight, cap + tol))
        negative == IdsWhere(df, LAMBDA r : Lt(r.Weight, 0))
        missing == IdsWhere(df, LAMBDA r : IsNaN(r.Weight))
        close_to_cap == IdsWhere(df, LAMBDA r : Gt(r.Weight, cap - near_cap_band)
                                                 /\ Le(r.Weight, cap))
        errors ==
            (IF Abs(total_weight - 100 * Scale) > tol
                THEN <<Finding(port, "sum", {})>> ELSE <<>>)
            \o (IF violators # {} THEN <<Finding(port, "ucits", violators)>> ELSE <<>>)
            \o (IF negative # {} THEN <<Finding(port, "negative", negative)>> ELSE <<>>)
            \o (IF missing # {} THEN <<Finding(port, "missing", missing)>> ELSE <<>>)
        warnings ==
            IF close_to_cap # {} THEN <<Finding(port, "near_cap", close_to_cap)>> ELSE <<>>
        metrics ==
            [total_weight |-> total_weight,
             max_weight |-> SeqNanMax(df),
             num_positions |-> Len(df),
             num_negative |-> Cardinality({i \in Idx(df) : Lt(df[i].Weight, 0)}),
             num_missing |-> Cardinality({i \in Idx(df) : IsNaN(df[i].Weight)})]
    IN [is_valid |-> errors = <<>>, errors |-> errors, warnings |-> warnings,
        metrics |-> metrics]

-----------------------------------------------------------------------------
(* shared/validation/reconciliation.py *)

change_threshold_pct == 5000000     \* reconciliation.change_threshold_pct, default 5.0

\* weights of the rows with key k; a key absent from the table gives one NaN
KeyWeights(df, k) ==
    LET rows == SelectSeq(df, LAMBDA r : r.id = k)
    IN IF rows = <<>> THEN <<NaN>> ELSE [i \in 1 .. Len(rows) |-> rows[i].Weight]

FillNa0(w) == IF IsNaN(w) THEN 0 ELSE w

\* current.merge(previous, on=id, how='outer'), then fillna(0): per key, in the
\* order `keys`, every pairing of a current row with a previous row
RECURSIVE Merged(_, _, _)
Merged(current, previous, keys) ==
    IF keys = <<>> THEN <<>>
    ELSE LET k == Head(keys)
             c == KeyWeights(current, k)
             p == KeyWeights(previous, k)
             present == \E i \in Idx(current) : current[i].id = k
             known == \E i \in Idx(previous) : previous[i].id = k
             pairs == [i \in 1 .. (Len(c) * Len(p)) |->
                         [id |-> k,
                          Weight_current |-> FillNa0(c[((i - 1) \div Len(p)) + 1]),
                          Weight_previous |-> FillNa0(p[((i - 1) % Len(p)) + 1])]]
         IN (IF present \/ known THEN pairs ELSE <<>>)
                \o Merged(current, previous, Tail(keys))

SeqMap(q, F(_)) == [i \in 1 .. Len(q) |-> F(q[i])]

Alert(kind, ids, prev, cur) == [kind |-> kind, ids |-> ids, prev |-> prev, cur |-> cur]

\* a classification that calls every position with a current weight new
IsNew_AnyCurrent(r) == r.Weight_current > 0

\* (merged['Weight_previous'] == 0) & (merged['Weight_current'] > 0)
IsNew(r) == r.Weight_previous = 0 /\ r.Weight_current > 0

\* (merged['Weight_previous'] > 0) & (merged['Weight_current'] == 0)
IsRemoved(r) == r.Weight_previous > 0 /\ r.Weight_current = 0

\* a change without its sign
Change_Unsigned(cur, prev) == Abs(cur - prev)

\* merged['Change'] = merged['Weight_current'] - merged['Weight_previous']
Change(cur, prev) == cur - prev

ChangeRow(r) ==
    [id |-> r.id, Weight_previous |-> r.Weight_previous, Weight_current |-> r.Weight_current,
     Change |-> Change(r.Weight_current, r.Weight_previous),
     Change_Abs |-> Abs(Change(r.Weight_current, r.Weight_previous))]

\* changes_df.sort_values('Change_Abs', ascending=False); rows of equal
\* Change_Abs keep the order of the merge
RECURSIVE InsertDesc(_, _)
InsertDesc(q, r) ==
    IF q = <<>> THEN <<r>>
    ELSE IF Head(q).Change_Abs >= r.Change_Abs THEN <<Head(q)>> \o InsertDesc(Tail(q), r)
    ELSE <<r>> \o q

RECURSIVE SortValues(_)
SortValues(q) ==
    IF q = <<>> THEN <<>>
    ELSE InsertDesc(SortValues(SubSeq(q, 1, Len(q) - 1)), q[Len(q)])

compare_with_previous(threshold_pct, current, previous, keys) ==
    LET merged == Merged(current, previous, keys)
        idOf(r) == r.id
        new_components == SeqMap(SelectSeq(merged, IsNew), idOf)
        removed_components == SeqMap(SelectSeq(merged, IsRemoved), idOf)
        significant ==
            SelectSeq(merged, LAMBDA r : ChangeRow(r).Change_Abs > threshold_pct)
        toAlert(r) == Alert("change", <<r.id>>, r.Weight_previous, r.Weight_current)
        alerts ==
            SeqMap(significant, toAlert)
            \o (IF new_components # <<>> THEN <<Alert("new", new_components, 0, 0)>> ELSE <<>>)
            \o (IF removed_components # <<>>
                   THEN <<Alert("removed", removed_components, 0, 0)>> ELSE <<>>)
    IN [alerts |-> alerts, changes |-> SortValues(SeqMap(merged, ChangeRow)),
        new_components |-> new_components, removed_components |-> removed_components]

EmptyReport ==
    [alerts |-> <<>>, changes |-> <<>>, new_components |-> <<>>, removed_components |-> <<>>]

-----------------------------------------------------------------------------
(* shared/utils/file_handler.py: the versioned store                        *)
(* A directory output/{fund}/{date}/ holds the versioned csv files (one per *)
(* timestamp), the latest csv, and the metadata json files.                 *)

NoFile == <<Row(<<"no", "file">>, NaN)>>          \* the file does not exist
EmptyDir == [versions |-> {}, latest |-> NoFile, meta |-> {}]

\* output_dir.glob(f"{fund}_{date}_*.csv") without the 'latest' file
_get_version_number(dir) == Cardinality({v.ts : v \in dir.versions})

\* df.to_csv(versioned_file), df.to_csv(latest_file): a file of the same
\* timestamp is overwritten
WriteCsv(dir, df, ts) ==
    [dir EXCEPT !.versions = {v \in dir.versions : v.ts # ts} \cup {[ts |-> ts, df |-> df]},
                !.latest = df]

WriteMeta(dir, ts) ==
    [dir EXCEPT !.meta = {m \in dir.meta : m.ts # ts}
                            \cup {[ts |-> ts, version |-> _get_version_number(dir)]}]

\* save_csv whose output directory is not scoped by the fund
save_csv_SharedDir(st, df, fund, date, ts, fault) ==
    LET key == <<"fundA", date>>
        dir == st[key]
    IN IF fault = "to_csv" THEN st
       ELSE IF fault = "json_dump" THEN [st EXCEPT ![key] = WriteCsv(dir, df, ts)]
       ELSE [st EXCEPT ![key] = WriteMeta(WriteCsv(dir, df, ts), ts)]

\* save_csv with a non-empty metadata dict; fault: where the call raises
save_csv(st, df, fund, date, ts, fault) ==
    LET dir == st[<<fund, date>>]
    IN IF fault = "to_csv" THEN st
       ELSE IF fault = "json_dump" THEN [st EXCEPT ![<<fund, date>>] = WriteCsv(dir, df, ts)]
       ELSE [st EXCEPT ![<<fund, date>>] = WriteMeta(WriteCsv(dir, df, ts), ts)]

\* dates are YYYYMMDD numbers, as the strings the code passes around
YearOf(d) == d \div 10000
MonthOf(d) == (d \div 100) % 100
DayOf(d) == d % 100
IsLeap(y) == (y % 4 = 0 /\ y % 100 # 0) \/ y % 400 = 0
DaysInMonth(y, m) ==
    IF m = 2 THEN (IF IsLeap(y) THEN 29 ELSE 28)
    ELSE IF m \in {4, 6, 9, 11} THEN 30
    ELSE 31

\* a previous day found by decrementing the number
PreviousDay_Decrement(d) == d - 1

\* (datetime.strptime(d, '%Y%m%d') - timedelta(days=1)).strftime('%Y%m%d')
PreviousDay(d) ==
    IF DayOf(d) > 1 THEN d - 1
    ELSE IF MonthOf(d) > 1
    THEN YearOf(d) * 10000 + (MonthOf(d) - 1) * 100 + DaysInMonth(YearOf(d), MonthOf(d) - 1)
    ELSE (YearOf(d) - 1) * 10000 + 1231

\* the latest file of the strictly previous day, or None
get_previous_run(st, fund, current_date) ==
    IF <<fund, PreviousDay(current_date)>> \in DOMAIN st
    THEN st[<<fund, PreviousDay(current_date)>>].latest
    ELSE NoFile

-----------------------------------------------------------------------------
(* orchestration/single_fund_runner.py *)

\* PORTFOLIO_CONFIGS.keys() of the fund's config module, and the sorted keys
\* of its tables
FundPortfolios == <<"P", "Q">>
PlSymbols == <<"s1", "s2", "s3", "s4", "s5", "s6", "s7">>
PlIds == [i \in 1 .. Len(PlSymbols) |-> <<"P", PlSymbols[i]>>]

RECURSIVE ValidateEach(_, _, _)
ValidateEach(config, df, ports) ==
    IF ports = <<>> THEN [errors |-> <<>>, warnings |-> <<>>]
    ELSE LET portfolio_df == RowsOf(df, Head(ports))
             rest == ValidateEach(config, df, Tail(ports))
         IN IF portfolio_df = <<>> THEN rest
            ELSE LET result == validate(config, portfolio_df, Head(ports))
                 IN [errors |-> result.errors \o rest.errors,
                     warnings |-> result.warnings \o rest.warnings]

_validate(df) ==
    LET combined == ValidateEach(ValidatorConfig, df, FundPortfolios)
    IN [is_valid |-> combined.errors = <<>>,
        errors |-> combined.errors, warnings |-> combined.warnings,
        metrics |-> <<>>]

_reconcile(st, df, fund, run_date) ==
    LET previous_df == get_previous_run(st, fund, run_date)
    IN IF previous_df = NoFile THEN EmptyReport
       ELSE compare_with_previous(change_threshold_pct, df, previous_df, PlIds)

NoPath == <<"", 0, 0>>
NoErrors == <<>>
FailedResult(fund, error) ==
    [fund |-> fund, status |-> "FAILED", output_path |-> NoPath,
     warnings |-> <<>>, error |-> error]

\* a runner that treats reconciliation alerts as a failure
ValidResult_AlertsFail(fund, run_date, ts, validation_result, recon_result) ==
    IF recon_result.alerts # <<>>
    THEN FailedResult(fund, <<Finding("", "exception:reconcile", {})>>)
    ELSE [fund |-> fund, status |-> "SUCCESS", output_path |-> <<fund, run_date, ts>>,
          warnings |-> validation_result.warnings \o recon_result.alerts, error |-> NoErrors]

\* the result a valid table gets: alerts never decide the status
ValidResult(fund, run_date, ts, validation_result, recon_result) ==
    [fund |-> fund, status |-> "SUCCESS", output_path |-> <<fund, run_date, ts>>,
     warnings |-> validation_result.warnings \o recon_result.alerts, error |-> NoErrors]

\* FundRunner.run: the result record and the store afterwards.  env says what
\* the calculator returned and where, if anywhere, an exception is raised.
FundRunner_run(st, fund, run_date, env) ==
    IF env.compute_raises
    THEN [result |-> FailedResult(fund, <<Finding("", "exception:compute", {})>>), store |-> st]
    ELSE LET weights_df == env.table
             validation_result == _validate(weights_df)
             recon_result == _reconcile(st, weights_df, fund, run_date)
         IN IF ~validation_result.is_valid
            THEN [result |-> FailedResult(fund, validation_result.errors), store |-> st]
            ELSE IF env.save_fault # "none"
            THEN [result |-> FailedResult(fund, <<Finding("", "exception:save", {})>>),
                  store |-> save_csv(st, weights_df, fund, run_date, env.ts, env.save_fault)]
            ELSE [result |-> ValidResult(fund, run_date, env.ts, validation_result,
                                         recon_result),
                  store |-> save_csv(st, weights_df, fund, run_date, env.ts, "none")]

-----------------------------------------------------------------------------
(* orchestration/main_pipeline.py *)

RunDate == 20251201              \* self.run_date, a first of the month
ActiveFunds == <<"fundA", "fundB">>          \* active_funds of config/funds.yaml
FundNames == {ActiveFunds[i] : i \in 1 .. Len(ActiveFunds)}
FundFilters == {"None", "fundA", "fundB", "fundZ"}     \* --fund, fundZ is not configured
NoExit == 0 - 1

\* tables a fund's calculator may return (weights of s1..s7 of portfolio P)
MkTable(ws) == [i \in 1 .. Len(ws) |-> Row(PlIds[i], ws[i])]
TblA == MkTable(<<19250000, 19250000, 19250000, 19250000, 19250000, 3750000, 0>>)
TblB == MkTable(<<19250000, 19250000, 19250000, 19250000, 19250000, 0, 3750000>>)
TblC == MkTable(<<19250000, 19250000, 19250000, 19250000, 11500000, 11500000, 0>>)
TblSumBad == MkTable(<<19250000, 19250000, 19250000, 19250000, 0, 0, 0>>)
TblCapBad == MkTable(<<19250000, 19250000, 19250000, 19250000, 23000000, 0, 0>>)
PlTables == {TblA, TblB, TblC, TblSumBad, TblCapBad}

\* a directory as one earlier save at timestamp ts left it
DirWith(df, ts) == WriteMeta(WriteCsv(EmptyDir, df, ts), ts)

InitialStores ==
    {st \in [FundNames \X {PreviousDay(RunDate), RunDate} -> {EmptyDir, DirWith(TblA, 1), DirWith(TblB, 1)}] :
        \A f \in FundNames : st[<<f, RunDate>>] # DirWith(TblB, 1)}

\* _get_fund_list: the funds to process; an unknown filter raises ValueError
_get_fund_list(fund_filter) ==
    IF fund_filter = "None" THEN ActiveFunds
    ELSE IF fund_filter \in FundNames THEN <<fund_filter>>
    ELSE <<>>
FundListRaises(fund_filter) == fund_filter # "None" /\ fund_filter \notin FundNames

\* what the gateway call of a shared fetch ends with
FetchOutcomes == {"ok", "MissingDataError", "APIConnectionError", "APIAuthError"}

\* what the environment does during one iteration of the fund loop
EnvChoices(clk) ==
    {e \in [ctor_raises : BOOLEAN, compute_raises : BOOLEAN, table : PlTables,
            save_fault : {"none", "to_csv", "json_dump"}, upload_raises : BOOLEAN,
            ts : clk .. MaxClock] :
        LET computes == ~e.ctor_raises /\ ~e.compute_raises
            saves == computes /\ _validate(e.table).is_valid
            writes == saves /\ e.save_fault # "to_csv"
        IN /\ e.ctor_raises => ~e.compute_raises
           /\ ~computes => e.table = TblA
           /\ ~saves => e.save_fault = "none"
           /\ ~writes => e.ts = clk
           /\ ~(saves /\ e.save_fault = "none") => ~e.upload_raises}

ExceptionResult(fund, what) == FailedResult(fund, <<Finding("", what, {})>>)

\* a loop body whose except branch records nothing
LoopBodyResults_Swallow(res, fund, run_result, env) ==
    IF env.ctor_raises THEN res ELSE Append(res, run_result)

\* self.results after one pass of the loop body for fund_name
\* (try: _process_fund, append, _upload_to_s3; except: append a FAILED record)
LoopBodyResults(res, fund, run_result, env) ==
    IF env.ctor_raises
    THEN Append(res, ExceptionResult(fund, "exception:import"))
    ELSE IF run_result.status = "SUCCESS" /\ run_result.output_path # NoPath
            /\ env.upload_raises
    THEN Append(Append(res, run_result), ExceptionResult(fund, "exception:upload"))
    ELSE Append(res, run_result)

_determine_exit_code(res) ==
    IF \A i \in 1 .. Len(res) : res[i].status = "SUCCESS" THEN 0
    ELSE IF \A i \in 1 .. Len(res) : res[i].status = "FAILED" THEN 2
    ELSE 1

PlIdle ==
    /\ pl_pc = "idle"
    /\ funds = <<>>
    /\ fund_idx = 1
    /\ results = <<>>
    /\ store = [k \in FundNames \X {PreviousDay(RunDate), RunDate} |-> EmptyDir]
    /\ clock = 1
    /\ exit_code = NoExit
    /\ scen = [store0 |-> store, fund_filter |-> "None", fetch |-> "pending",
               envs |-> <<>>, summary |-> "pending", failure_mail |-> "pending"]

PlInit ==
    /\ pl_pc = "start"
    /\ funds = <<>>
    /\ fund_idx = 1
    /\ results = <<>>                    \* self.results = []
    /\ store \in InitialStores
    /\ clock = 1
    /\ exit_code = NoExit
    /\ \E ff \in FundFilters :
          scen = [store0 |-> store, fund_filter |-> ff, fetch |-> "pending",
                  envs |-> <<>>, summary |-> "pending", failure_mail |-> "pending"]

\* the except branches of run(): _send_failure_email, then return 2; an
\* exception of _send_failure_email leaves run()
FailureHandler(mail) ==
    /\ IF mail = "ok"
       THEN pl_pc' = "returned" /\ exit_code' = 2
       ELSE pl_pc' = "raised" /\ UNCHANGED exit_code

\* run(), steps 1, 1a and 2: the shared fetches and the fund list
run_fetch ==
    /\ pl_pc = "start"
    /\ \E mkt \in FetchOutcomes, ret \in FetchOutcomes, mail \in {"ok", "raises"} :
          LET error == IF mkt # "ok" THEN mkt
                       ELSE IF ret # "ok" THEN ret
                       ELSE IF FundListRaises(scen.fund_filter) THEN "ValueError"
                       ELSE "ok"
          IN /\ mkt # "ok" => ret = "ok"
             /\ error = "ok" => mail = "ok"
             /\ IF error = "ok"
                THEN /\ funds' = _get_fund_list(scen.fund_filter)
                     /\ pl_pc' = "loop"
                     /\ scen' = [scen EXCEPT !.fetch = "ok"]
                     /\ UNCHANGED exit_code
                ELSE /\ FailureHandler(mail)
                     /\ scen' = [scen EXCEPT !.fetch = error, !.failure_mail = mail]
                     /\ UNCHANGED funds
    /\ UNCHANGED <<fund_idx, results, store, clock>>
    /\ UNCHANGED <<calcVars, gwVars, libVars>>

\* run(), step 3: one pass of the loop over the funds
run_fund ==
    /\ pl_pc = "loop"
    /\ fund_idx <= Len(funds)
    /\ \E env \in EnvChoices(clock) :
          LET fund_name == funds[fund_idx]
              r == FundRunner_run(store, fund_name, RunDate, env)
          IN /\ results' = LoopBodyResults(results, fund_name, r.result, env)
             /\ store' = IF env.ctor_raises THEN store ELSE r.store
             /\ clock' = env.ts
             /\ scen' = [scen EXCEPT !.envs = Append(@, env)]
    /\ fund_idx' = fund_idx + 1
    /\ UNCHANGED <<pl_pc, funds, exit_code>>
    /\ UNCHANGED <<calcVars, gwVars, libVars>>

\* run(), steps 4 and 5 and the exit code
run_finish ==
    /\ pl_pc = "loop"
    /\ fund_idx > Len(funds)
    /\ \E summary \in {"ok", "raises"}, mail \in {"ok", "raises"} :
          /\ summary = "ok" => mail = "ok"
          /\ IF summary = "ok"
             THEN /\ pl_pc' = "returned"
                  /\ exit_code' = _determine_exit_code(results)
                  /\ scen' = [scen EXCEPT !.summary = "ok"]
             ELSE /\ FailureHandler(mail)
                  /\ scen' = [scen EXCEPT !.summary = "raises", !.failure_mail = mail]
    /\ UNCHANGED <<funds, fund_idx, results, store, clock>>
    /\ UNCHANGED <<calcVars, gwVars, libVars>>

-----------------------------------------------------------------------------
(* The validator as a state machine: one call of WeightValidator.validate   *)
(* on a table, or one call of FundRunner._validate on a table that bundles  *)
(* the portfolios P and Q.  The rows of P are four base rows of 18.75 and   *)
(* up to MaxValRows rows drawn from ValWeights; the rows of Q are one of a  *)
(* few fixed tables.                                                        *)

MkTableOf(port, ws) == [i \in 1 .. Len(ws) |-> Row(<<port, PlSymbols[i]>>, ws[i])]

ValBase == <<18750000, 18750000, 18750000, 18750000>>
ValWeights ==
    {NaN, 0 - 250000, 0, 5750000, 6000000, 6250000, 12500000,
     18750000, 19000000, 19250000, 19250100, 19250101}

QTables ==
    {<<>>,
     MkTableOf("Q", <<18750000, 18750000, 18750000, 18750000, 12500000, 12500000>>),
     MkTableOf("Q", <<18750000, 18750000, 18750000, 18750000, 12500000>>),
     MkTableOf("Q", <<18750000, 18750000, 18750000, 18750000, 25000000>>)}

ValInputs ==
    {MkTableOf("P", ValBase \o ws) \o q : ws \in SeqsUpTo(ValWeights, MaxValRows), q \in QTables}

NoResult == [is_valid |-> FALSE, errors |-> <<>>, warnings |-> <<>>, metrics |-> <<>>]

ValIdle ==
    /\ val_pc = "idle"
    /\ val_df = <<>>
    /\ val_result = NoResult

ValInit ==
    /\ val_pc = "input"
    /\ val_df \in ValInputs
    /\ val_result = NoResult

\* validator.validate(df, portfolio_type) on the table as it is
WeightValidator_validate ==
    /\ val_pc = "input"
    /\ val_result' = validate(ValidatorConfig, val_df, "P")
    /\ val_pc' = "validated"
    /\ UNCHANGED val_df
    /\ UNCHANGED <<calcVars, gwVars, plVars, recVars, fhVars, ilVars>>

\* FundRunner._validate(df)
FundRunner_validate ==
    /\ val_pc = "input"
    /\ val_result' = _validate(val_df)
    /\ val_pc' = "combined"
    /\ UNCHANGED val_df
    /\ UNCHANGED <<calcVars, gwVars, plVars, recVars, fhVars, ilVars>>

-----------------------------------------------------------------------------
(* The reconciliation as a state machine: compare_with_previous on two      *)
(* tables, then on the same tables swapped.  A table holds any of the       *)
(* positions RecIds once, each with a weight of RecWeights; the tables that *)
(* reach the reconciliation have passed validation, so no weight is         *)
(* negative or missing.                                                     *)

RecIds == [i \in 1 .. MaxRecRows |-> <<"P", PlSymbols[i]>>]
RecWeights == {0, 3000000, 8000000, 8000001}

\* the rows of the positions S in the order of RecIds, with the weights w
TableFrom(S, w) ==
    SelectSeq([i \in 1 .. MaxRecRows |-> Row(RecIds[i], IF i \in S THEN w[i] ELSE 0)],
              LAMBDA r : \E i \in S : RecIds[i] = r.id)

RecTables ==
    UNION {{TableFrom(S, w) : w \in [S -> RecWeights]} : S \in SUBSET (1 .. MaxRecRows)}

RecIdle ==
    /\ rec_pc = "idle"
    /\ rec_current = <<>>
    /\ rec_previous = <<>>
    /\ rec_report = EmptyReport
    /\ rec_swapped = EmptyReport

RecInit ==
    /\ rec_pc = "input"
    /\ rec_current \in RecTables
    /\ rec_previous \in RecTables
    /\ rec_report = EmptyReport
    /\ rec_swapped = EmptyReport

\* reconciliator.compare_with_previous(current, previous)
compare_current_previous ==
    /\ rec_pc = "input"
    /\ rec_report' = compare_with_previous(change_threshold_pct, rec_current, rec_previous, RecIds)
    /\ rec_pc' = "compared"
    /\ UNCHANGED <<rec_current, rec_previous, rec_swapped>>
    /\ UNCHANGED <<calcVars, gwVars, plVars, valVars, fhVars, ilVars>>

\* reconciliator.compare_with_previous(previous, current)
compare_previous_current ==
    /\ rec_pc = "compared"
    /\ rec_swapped' = compare_with_previous(change_threshold_pct, rec_previous, rec_current, RecIds)
    /\ rec_pc' = "swapped"
    /\ UNCHANGED <<rec_current, rec_previous, rec_report>>
    /\ UNCHANGED <<calcVars, gwVars, plVars, valVars, fhVars, ilVars>>

-----------------------------------------------------------------------------
(* The versioned store as a state machine: any save_csv calls followed by   *)
(* a get_previous_run call, for the funds of ActiveFunds and the days       *)
(* around a turn of the month.                                              *)

StoreDates == {20251129, 20251130, 20251201}
LookupDates == {20251130, 20251201, 20251202}
StoreTables == {TblA, TblB}
SaveFaults == {"none", "to_csv", "json_dump"}
NoLookup == [fund |-> "", date |-> 0, result |-> NoFile, at |-> 0]
NoVersion == 0 - 1

\* metadata['version'] of a save_csv call on the directory dir, NoVersion when
\* the call raises before the metadata is written
VersionWritten(dir, df, ts, fault) ==
    IF fault = "none" THEN _get_version_number(WriteCsv(dir, df, ts)) ELSE NoVersion

FhIdle ==
    /\ fh_pc = "idle"
    /\ fh_store = [k \in FundNames \X StoreDates |-> EmptyDir]
    /\ fh_clock = 1
    /\ fh_saves = <<>>
    /\ fh_lookup = NoLookup

FhInit ==
    /\ fh_pc = "ready"
    /\ fh_store = [k \in FundNames \X StoreDates |-> EmptyDir]
    /\ fh_clock = 1
    /\ fh_saves = <<>>
    /\ fh_lookup = NoLookup

\* handler.save_csv(df, fund_name, date, metadata)
VersionedFileHandler_save_csv ==
    /\ fh_pc = "ready"
    /\ Len(fh_saves) < MaxSaves
    /\ \E fund \in FundNames, date \in StoreDates, df \in StoreTables,
          ts \in fh_clock .. MaxClock, fault \in SaveFaults :
          /\ fh_store' = save_csv(fh_store, df, fund, date, ts, fault)
          /\ fh_clock' = ts
          /\ fh_saves' = Append(fh_saves, [fund |-> fund, date |-> date, df |-> df,
                                           ts |-> ts, fault |-> fault,
                                           version |-> VersionWritten(fh_store[<<fund, date>>],
                                                                      df, ts, fault)])
    /\ UNCHANGED <<fh_pc, fh_lookup>>
    /\ UNCHANGED <<calcVars, gwVars, plVars, valVars, recVars, ilVars>>

\* handler.get_previous_run(fund_name, current_date)
VersionedFileHandler_get_previous_run ==
    /\ fh_pc = "ready"
    /\ \E fund \in FundNames, date \in LookupDates :
          fh_lookup' = [fund |-> fund, date |-> date,
                        result |-> get_previous_run(fh_store, fund, date),
                        at |-> Len(fh_saves)]
    /\ fh_pc' = "looked"
    /\ UNCHANGED <<fh_store, fh_clock, fh_saves>>
    /\ UNCHANGED <<calcVars, gwVars, plVars, valVars, recVars, ilVars>>

-----------------------------------------------------------------------------
(* FundRunner.run step by step, for the runners of the active funds at once. *)
(* Every runner holds the same market_data and returns_data frames and the  *)
(* same output/ tree; a step of a runner is one of the four steps of run(). *)
(* What a fund's calculator returns and where its save raises is drawn at   *)
(* the start; the timestamp of a save is drawn when the save happens.       *)

\* self.market_data and self.returns_data of the pipeline, as fetched
SharedFrames == [market_data |-> "mcaps", returns_data |-> "returns"]

\* output/ at the start: fundB has no output of the run date yet
RunnerStores == {st \in InitialStores : st[<<"fundB", RunDate>>] = EmptyDir}

PendingResult ==
    [fund |-> "", status |-> "PENDING", output_path |-> NoPath,
     warnings |-> <<>>, error |-> NoErrors]
NewRunner ==
    [pc |-> "calculate", weights_df |-> NoFile, validation_result |-> NoResult,
     recon_result |-> EmptyReport, result |-> PendingResult, ts |-> 1]

\* the environments of run_fund in which the runner is constructed and run
RunnerEnvs ==
    {e \in EnvChoices(1) : /\ ~e.ctor_raises /\ ~e.upload_raises /\ e.ts = 1
                           /\ e.table \in {TblA, TblC, TblSumBad}}

IdleEnv ==
    [ctor_raises |-> FALSE, compute_raises |-> FALSE, table |-> TblA,
     save_fault |-> "none", upload_raises |-> FALSE, ts |-> 1]

IlIdle ==
    /\ il_run = [f \in FundNames |-> [NewRunner EXCEPT !.pc = "idle"]]
    /\ il_store = [k \in FundNames \X {PreviousDay(RunDate), RunDate} |-> EmptyDir]
    /\ il_clock = 1
    /\ il_shared = SharedFrames
    /\ il_scen = [store0 |-> il_store, shared0 |-> il_shared,
                  envs |-> [f \in FundNames |-> IdleEnv]]

IlInit ==
    /\ il_run = [f \in FundNames |-> NewRunner]
    /\ il_store \in RunnerStores
    /\ il_clock = 1
    /\ il_shared = SharedFrames
    /\ \E envs \in [FundNames -> RunnerEnvs] :
          il_scen = [store0 |-> il_store, shared0 |-> il_shared, envs |-> envs]

\* Step 1: weights_df = calculate_all_portfolios(market_data, returns_data, date);
\* the frames are read, concatenated and merged into new frames
Runner_calculate ==
    \E f \in FundNames :
        /\ il_run[f].pc = "calculate"
        /\ il_run' = [il_run EXCEPT ![f] =
              IF il_scen.envs[f].compute_raises
              THEN [@ EXCEPT !.pc = "done",
                             !.result = FailedResult(f, <<Finding("", "exception:compute", {})>>)]
              ELSE [@ EXCEPT !.pc = "validate", !.weights_df = il_scen.envs[f].table]]
        /\ UNCHANGED <<il_store, il_clock, il_shared, il_scen>>
        /\ UNCHANGED <<calcVars, gwVars, plVars, valVars, recVars, fhVars>>

\* Step 2: validation_result = self._validate(weights_df), FAILED when not valid
Runner_validate ==
    \E f \in FundNames :
        /\ il_run[f].pc = "validate"
        /\ LET validation_result == _validate(il_run[f].weights_df)
           IN il_run' = [il_run EXCEPT ![f] =
                 IF ~validation_result.is_valid
                 THEN [@ EXCEPT !.pc = "done", !.validation_result = validation_result,
                                !.result = FailedResult(f, validation_result.errors)]
                 ELSE [@ EXCEPT !.pc = "reconcile", !.validation_result = validation_result]]
        /\ UNCHANGED <<il_store, il_clock, il_shared, il_scen>>
        /\ UNCHANGED <<calcVars, gwVars, plVars, valVars, recVars, fhVars>>

\* Step 3: recon_result = self._reconcile(weights_df), reading output/ as it is now
Runner_reconcile ==
    \E f \in FundNames :
        /\ il_run[f].pc = "reconcile"
        /\ il_run' = [il_run EXCEPT ![f] =
              [@ EXCEPT !.pc = "save_output",
                        !.recon_result = _reconcile(il_store, il_run[f].weights_df, f, RunDate)]]
        /\ UNCHANGED <<il_store, il_clock, il_shared, il_scen>>
        /\ UNCHANGED <<calcVars, gwVars, plVars, valVars, recVars, fhVars>>

\* Steps 4 and 5: output_path = self._save_output(...), then the result record
Runner_save_output ==
    \E f \in FundNames : \E ts \in il_clock .. MaxClock :
        /\ il_run[f].pc = "save_output"
        /\ il_store' = save_csv(il_store, il_run[f].weights_df, f, RunDate, ts,
                                il_scen.envs[f].save_fault)
        /\ il_clock' = ts
        /\ il_run' = [il_run EXCEPT ![f] =
              [@ EXCEPT !.pc = "done", !.ts = ts,
                        !.result =
                            IF il_scen.envs[f].save_fault # "none"
                            THEN FailedResult(f, <<Finding("", "exception:save", {})>>)
                            ELSE ValidResult(f, RunDate, ts, il_run[f].validation_result,
                                             il_run[f].recon_result)]]
        /\ UNCHANGED <<il_shared, il_scen>>
        /\ UNCHANGED <<calcVars, gwVars, plVars, valVars, recVars, fhVars>>

-----------------------------------------------------------------------------
(* Specifications *)

\* the calculator on every input of CalcInputs
CalcNext == CalculateWeights
LibIdle == ValIdle /\ RecIdle /\ FhIdle /\ IlIdle
InitCalc == CalcInit /\ GwIdle /\ PlIdle /\ LibIdle
SpecCalc == InitCalc /\ [][CalcNext]_vars

\* one call of get_market_caps or get_returns
GwNext == get_market_caps \/ get_returns \/ RetryLoopEnds
InitGateway == CalcIdle /\ GwInit /\ PlIdle /\ LibIdle
SpecGateway == InitGateway /\ [][GwNext]_vars

\* one run of the daily pipeline
PlNext == run_fetch \/ run_fund \/ run_finish
InitPipeline == CalcIdle /\ GwIdle /\ PlInit /\ LibIdle
SpecPipeline == InitPipeline /\ [][PlNext]_vars

\* one call of the validator on every table of ValInputs
ValNext == WeightValidator_validate \/ FundRunner_validate
InitValidator == CalcIdle /\ GwIdle /\ PlIdle /\ ValInit /\ RecIdle /\ FhIdle /\ IlIdle
SpecValidator == InitValidator /\ [][ValNext]_vars

\* the reconciliation of every pair of tables of RecTables, both ways round
RecNext == compare_current_previous \/ compare_previous_current
InitReconciliation == CalcIdle /\ GwIdle /\ PlIdle /\ ValIdle /\ RecInit /\ FhIdle /\ IlIdle
SpecReconciliation == InitReconciliation /\ [][RecNext]_vars

\* up to MaxSaves saves on an empty store, then a lookup
FhNext == VersionedFileHandler_save_csv \/ VersionedFileHandler_get_previous_run
InitStore == CalcIdle /\ GwIdle /\ PlIdle /\ ValIdle /\ RecIdle /\ FhInit /\ IlIdle
SpecStore == InitStore /\ [][FhNext]_vars

\* the runners of the active funds, their steps in any interleaving
IlNext == Runner_calculate \/ Runner_validate \/ Runner_reconcile \/ Runner_save_output
InitInterleaved ==
    CalcIdle /\ GwIdle /\ PlIdle /\ ValIdle /\ RecIdle /\ FhIdle /\ IlInit
SpecInterleaved == InitInterleaved /\ [][IlNext]_vars


-----------------------------------------------------------------------------
(* Claims about the calculator (SpecCalc) *)

FiSymbols == FI_TIER_1 \cup FI_TIER_3
EqSymbols == EQ_TIER_1 \cup EQ_TIER_2 \cup EQ_TIER_3 \cup EQ_TIER_4
NonZeroTierTotals ==
    /\ SumOver(mcap, FI_TIER_3) > 0
    /\ SumOver(mcap, EQ_TIER_2) > 0
    /\ SumOver(mcap, EQ_TIER_3) > 0

\* C1: for every portfolio and every input of non-negative market caps with
\* non-zero tier totals, the weights of the portfolio sum to 100 within
\* sum_tolerance_abs: the fixed-income positions to fixed_income_allocation
\* and the equity positions to equity_allocation.
C1_SumInvariant ==
    (calc_pc = "done" /\ NonZeroTierTotals) =>
        LET config == PORTFOLIO_CONFIGS[portfolio_type]
        IN /\ Abs(NanSum(Weight, AllSymbols) - 100 * Scale) <= sum_tolerance_abs
           /\ Abs(NanSum(Weight, FiSymbols) - config.fixed_income_allocation)
                  <= sum_tolerance_abs
           /\ Abs(NanSum(Weight, EqSymbols) - config.equity_allocation)
                  <= sum_tolerance_abs

\* C2: for every portfolio and every input of non-negative market caps, no
\* position weight exceeds base_weight + sum_tolerance_abs.
C2_CapInvariant ==
    calc_pc = "done" =>
        \A s \in AllSymbols :
            ~Gt(Weight[s], PORTFOLIO_CONFIGS[portfolio_type].base_weight + sum_tolerance_abs)

-----------------------------------------------------------------------------
(* Claims about the orchestrator (SpecPipeline) *)

FundRecords(f) == SelectSeq(results, LAMBDA r : r.fund = f)
FetchFailed == scen.fetch \in FetchOutcomes \ {"ok"}
LoopOver == scen.fetch = "ok" /\ fund_idx > Len(funds)
RunEnded == pl_pc \in {"returned", "raised"}
AllStatus(st) == \A i \in 1 .. Len(results) : results[i].status = st
TableValid(e) == ~e.ctor_raises /\ ~e.compute_raises /\ _validate(e.table).is_valid
FailsValidation(e) == ~e.ctor_raises /\ ~e.compute_raises /\ ~_validate(e.table).is_valid
StepFails(e) == ~TableValid(e) \/ e.save_fault # "none"

\* C3: after the fund loop the exit code of the run is 0 iff every fund result
\* is SUCCESS, 2 iff every fund result is FAILED, and 1 iff the results are mixed.
C3_ExitCodeAggregation ==
    (RunEnded /\ LoopOver) =>
        /\ pl_pc = "returned"
        /\ (exit_code = 0) <=> AllStatus("SUCCESS")
        /\ (exit_code = 2) <=> AllStatus("FAILED")
        /\ (exit_code = 1) <=> (~AllStatus("SUCCESS") /\ ~AllStatus("FAILED"))

\* C4: when the shared fetch fails with a gateway error, no fund is processed,
\* nothing is written to the versioned store, and run() returns exit code 2.
C4_WholeRunAbort ==
    FetchFailed =>
        /\ results = <<>>
        /\ scen.envs = <<>>
        /\ store = scen.store0
        /\ pl_pc = "returned"
        /\ exit_code = 2

C6_OneResultPerFund ==
    LoopOver => \A i \in 1 .. Len(funds) : Len(FundRecords(funds[i])) = 1

\* C7: a fund whose table has a validation error is recorded FAILED without an
\* output path and its versioned file, latest file and metadata of the date are
\* neither created nor changed; a result has an output path iff it is SUCCESS;
\* and when fund A succeeds and fund B fails validation, A's output is
\* persisted and the run gives exit code 1.
C7_ValidationGatesPersistence ==
    /\ \A i \in 1 .. Len(scen.envs) :
          FailsValidation(scen.envs[i]) =>
             LET f == funds[i]
                 recs == FundRecords(f)
             IN /\ \A j \in 1 .. Len(recs) :
                      recs[j].status = "FAILED" /\ recs[j].output_path = NoPath
                /\ store[<<f, RunDate>>] = scen.store0[<<f, RunDate>>]
    /\ \A j \in 1 .. Len(results) :
          (results[j].output_path # NoPath) <=> (results[j].status = "SUCCESS")
    /\ (/\ RunEnded
        /\ Len(scen.envs) = 2
        /\ ~StepFails(scen.envs[1]) /\ ~scen.envs[1].upload_raises
        /\ FailsValidation(scen.envs[2])) =>
             /\ results[1].output_path # NoPath
             /\ store[<<funds[1], RunDate>>].latest = scen.envs[1].table
             /\ pl_pc = "returned"
             /\ exit_code = 1

-----------------------------------------------------------------------------
(* Claims about the gateway (SpecGateway) *)

ClaimRetryable(e) == e.kind \in {"connection_error", "timeout"}
ClaimFatal(e) ==
    \/ e.kind \in {"http_401", "invalid_json", "no_data_field"}
    \/ e.kind = "data" /\ e.exc # "none"
OnlyRetryableFailures == \A i \in 1 .. Len(gw_log) : ClaimRetryable(gw_log[i])
ExpectedSleeps(n) == [k \in 1 .. n |-> retry_delay * (2 ^ (k - 1))]

\* C9: when every attempt hits a connection failure or a timeout the gateway
\* makes exactly max_retries attempts, sleeps retry_delay * 2^(k-1) after the
\* failed attempt k < max_retries, does not sleep after the last one and raises
\* the failure; an attempt that succeeds returns its table and is the last.
C9_BoundedRetry ==
    /\ (OnlyRetryableFailures /\ Len(gw_log) >= 1) =>
          /\ Len(gw_log) <= max_retries
          /\ IF Len(gw_log) = max_retries
             THEN /\ gw_pc = "raised"
                  /\ gw_error.type = "APIConnectionError"
                  /\ gw_sleeps = ExpectedSleeps(max_retries - 1)
             ELSE /\ gw_pc = "attempt"
                  /\ attempt = Len(gw_log) + 1
                  /\ gw_sleeps = ExpectedSleeps(Len(gw_log))
    /\ \A i \in 1 .. Len(gw_log) :
          gw_log[i].exc = "none" =>
             /\ i = Len(gw_log)
             /\ i = attempt
             /\ gw_pc = "returned"
             /\ gw_result \notin {NoTable, None}
             /\ Len(gw_sleeps) = i - 1

C9_Witness ==
    /\ gw_pc = "raised"
    /\ OnlyRetryableFailures
    /\ max_retries = 3
    /\ Len(gw_log) = 3
    /\ Len(gw_sleeps) = 2

\* C10: an attempt that fails with an authentication failure, a body that is
\* not valid JSON, an absent or empty data field, or missing data for a
\* requested id is the last attempt: no backoff sleep follows it and its
\* failure leaves the call.
C10_FatalNeverRetried ==
    \A i \in 1 .. Len(gw_log) :
        ClaimFatal(gw_log[i]) =>
           /\ i = Len(gw_log)
           /\ gw_pc = "raised"
           /\ gw_error.type = gw_log[i].exc
           /\ Len(gw_sleeps) = i - 1

\* the requested ids without a row in the response, and those with a row
\* whose value is null or not a number
AbsentIds(rows) == RequestedIds \ Symbols(rows)
NullIds(rows) ==
    {rows[i].id : i \in {j \in 1 .. Len(rows) : rows[j].val # "num"}} \cap RequestedIds
RowsFor(rows, id) == {i \in 1 .. Len(rows) : rows[i].id = id}
DataAttempt(e) == e.kind = "data" /\ e.rows # <<>>

\* C11: an HTTP 404 answer to an attempt of get_market_caps that is not the
\* last one is followed by the backoff sleep and another attempt, as a
\* connection error is; the failure does not leave the call from that attempt.
C11_Http404Retried ==
    gw_method = "get_market_caps" =>
        \A i \in 1 .. Len(gw_log) :
            (gw_log[i].kind = "http_404" /\ i < max_retries) =>
                /\ gw_pc # "raised" \/ Len(gw_log) > i
                /\ Len(gw_sleeps) >= i
                /\ gw_sleeps[i] = retry_delay * (2 ^ (i - 1))

\* C12: get_market_caps returns a table only if the response holds a numeric
\* value for every requested id; when a requested id has no row (also when rows
\* of other ids make the row count match) or has a null or non-numeric value,
\* the call fails with MissingDataError naming exactly the absent or null ids.
C12_MarketCapCompleteness ==
    (gw_method = "get_market_caps" /\ gw_log # <<>> /\ DataAttempt(gw_log[Len(gw_log)])) =>
        LET e == gw_log[Len(gw_log)]
            offending == AbsentIds(e.rows) \cup NullIds(e.rows)
        IN /\ gw_pc = "returned" => offending = {}
           /\ offending # {} =>
                 /\ gw_pc = "raised"
                 /\ gw_error.type = "MissingDataError"
                 /\ gw_error.missing = offending

\* C13: in get_returns a null or non-numeric value of a requested id does not
\* fail the fetch and gives that id a row without data, a response in which a
\* requested id does not appear fails the fetch, and a returned table has
\* exactly one row for each requested id.
C13_ReturnsTolerance ==
    (gw_method = "get_returns" /\ gw_log # <<>> /\ DataAttempt(gw_log[Len(gw_log)])) =>
        LET e == gw_log[Len(gw_log)]
            oncePerId == /\ Len(e.rows) = Cardinality(RequestedIds)
                         /\ \A id \in RequestedIds : Cardinality(RowsFor(e.rows, id)) = 1
        IN /\ oncePerId =>
                 /\ gw_pc = "returned"
                 /\ \A i \in 1 .. Len(e.rows) :
                       /\ gw_result[i].id = e.rows[i].id
                       /\ gw_result[i].val = (IF e.rows[i].val = "num" THEN "num" ELSE "NaN")
           /\ AbsentIds(e.rows) # {} => gw_pc = "raised"
           /\ gw_pc = "returned" =>
                 \A id \in RequestedIds : Cardinality(RowsFor(gw_result, id)) = 1

-----------------------------------------------------------------------------
(* Claims about the validator (SpecValidator) *)

Elems(q) == {q[i] : i \in 1 .. Len(q)}
ValIdxOf(port) == {i \in Idx(val_df) : val_df[i].id[1] = port}
Present(I) == {i \in I : val_df[i].Weight # NaN}
IdsAt(I) == {val_df[i].id : i \in I}

RECURSIVE WeightSum(_)
WeightSum(I) ==
    IF I = {} THEN 0
    ELSE LET i == CHOOSE x \in I : TRUE IN val_df[i].Weight + WeightSum(I \ {i})

OverCap(I) == {i \in Present(I) : val_df[i].Weight > 19250000 + 100}
Negative(I) == {i \in Present(I) : val_df[i].Weight < 0}
Missing(I) == I \ Present(I)
SumFails(I) == Abs(WeightSum(Present(I)) - 100 * Scale) > 100

\* the errors the four checks give for the rows I read as portfolio port
ExpectedErrors(I, port) ==
    (IF SumFails(I) THEN <<[portfolio |-> port, kind |-> "sum", ids |-> {}]>> ELSE <<>>)
    \o (IF OverCap(I) # {}
           THEN <<[portfolio |-> port, kind |-> "ucits", ids |-> IdsAt(OverCap(I))]>>
           ELSE <<>>)
    \o (IF Negative(I) # {}
           THEN <<[portfolio |-> port, kind |-> "negative", ids |-> IdsAt(Negative(I))]>>
           ELSE <<>>)
    \o (IF Missing(I) # {}
           THEN <<[portfolio |-> port, kind |-> "missing", ids |-> IdsAt(Missing(I))]>>
           ELSE <<>>)

ExpectedMetrics(I) ==
    [total_weight |-> WeightSum(Present(I)),
     max_weight |-> IF Present(I) = {} THEN NaN
                    ELSE LET m == CHOOSE i \in Present(I) :
                                     \A j \in Present(I) : val_df[j].Weight <= val_df[i].Weight
                         IN val_df[m].Weight,
     num_positions |-> Cardinality(I),
     num_negative |-> Cardinality(Negative(I)),
     num_missing |-> Cardinality(Missing(I))]

\* C14: validate emits the near-cap warning iff some position has a weight
\* strictly above cap - 0.5 and strictly below the cap; weights exactly at the
\* cap give no warning.
C14_NearCapBand ==
    val_pc = "validated" =>
        ((\E k \in 1 .. Len(val_result.warnings) : val_result.warnings[k].kind = "near_cap")
            <=> (\E i \in Present(Idx(val_df)) :
                    /\ val_df[i].Weight > 19250000 - 500000
                    /\ val_df[i].Weight < 19250000))

\* C15: validate returns one error for each failing check among sum, cap,
\* sign and completeness, in that order, each with every offending id;
\* is_valid holds iff no check fails; and total weight, max weight, position
\* count, negative count and missing count are filled in for every table.
C15_ValidatorAccumulates ==
    val_pc = "validated" =>
        /\ val_result.errors = ExpectedErrors(Idx(val_df), "P")
        /\ val_result.is_valid <=>
              (/\ ~SumFails(Idx(val_df)) /\ OverCap(Idx(val_df)) = {}
               /\ Negative(Idx(val_df)) = {} /\ Missing(Idx(val_df)) = {})
        /\ val_result.metrics = ExpectedMetrics(Idx(val_df))

C15_Witness ==
    /\ val_pc = "validated"
    /\ Len(val_result.errors) = 4
    /\ Cardinality(val_result.errors[2].ids) >= 1
    /\ val_result.metrics.num_missing = 1
    /\ val_result.metrics.num_negative = 1

\* C16: for a table that bundles portfolios, _validate checks the rows of each
\* portfolio on their own (no weight of one portfolio enters the sum or the cap
\* check of another), and the combined result is valid iff every portfolio
\* present in the table is valid on its own.
C16_PerPortfolioValidation ==
    val_pc = "combined" =>
        /\ val_result.errors =
              ExpectedErrors(ValIdxOf("P"), "P")
                 \o (IF ValIdxOf("Q") = {} THEN <<>> ELSE ExpectedErrors(ValIdxOf("Q"), "Q"))
        /\ val_result.is_valid <=>
              \A port \in {"P", "Q"} :
                  ValIdxOf(port) # {} => ExpectedErrors(ValIdxOf(port), port) = <<>>

C16_Witness ==
    /\ val_pc = "combined"
    /\ ValIdxOf("P") # {} /\ ValIdxOf("Q") # {}
    /\ val_result.is_valid
    /\ WeightSum(Present(Idx(val_df))) = 200 * Scale

-----------------------------------------------------------------------------
(* Claims about the reconciliation (SpecReconciliation) *)

\* the weight of a position in a table, 0 when the table has no row for it
WeightIn(tbl, id) ==
    IF \E i \in 1 .. Len(tbl) : tbl[i].id = id
    THEN tbl[CHOOSE i \in 1 .. Len(tbl) : tbl[i].id = id].Weight
    ELSE 0
RecPositions == Elems(RecIds)
Compared == rec_pc \in {"compared", "swapped"}
Exceeds(id) == Abs(WeightIn(rec_current, id) - WeightIn(rec_previous, id)) > 5000000

\* C17: with an absent row counted as weight 0, a position is in
\* new_components iff its previous weight is 0 and its current weight is > 0,
\* in removed_components iff its previous weight is > 0 and its current weight
\* is 0; a position of weight 0 on both sides is in neither list and no
\* position is in both.
C17_NewRemovedClassification ==
    Compared =>
        \A id \in RecPositions :
            LET cur == WeightIn(rec_current, id)
                prev == WeightIn(rec_previous, id)
                new == id \in Elems(rec_report.new_components)
                removed == id \in Elems(rec_report.removed_components)
            IN /\ new <=> (prev = 0 /\ cur > 0)
               /\ removed <=> (prev > 0 /\ cur = 0)
               /\ (prev = 0 /\ cur = 0) => (~new /\ ~removed)
               /\ ~(new /\ removed)

C17_Witness ==
    /\ Compared
    /\ rec_report.new_components # <<>>
    /\ rec_report.removed_components # <<>>
    /\ \E id \in RecPositions : WeightIn(rec_current, id) = 8000000 /\ WeightIn(rec_previous, id) = 0

\* C18: the alert list has exactly one alert for each position whose
\* |current - previous| is strictly above the threshold and no other alert: a
\* new or removed position within the threshold adds none, and two identical
\* tables give no alert.
C18_AlertsOnlyOnThreshold ==
    Compared =>
        /\ Len(rec_report.alerts) = Cardinality({id \in RecPositions : Exceeds(id)})
        /\ \A k \in 1 .. Len(rec_report.alerts) :
              /\ rec_report.alerts[k].kind = "change"
              /\ Exceeds(rec_report.alerts[k].ids[1])
        /\ \A id \in RecPositions :
              Exceeds(id) => \E k \in 1 .. Len(rec_report.alerts) : rec_report.alerts[k].ids = <<id>>
        /\ rec_current = rec_previous => rec_report.alerts = <<>>

\* C19: compare(A, B) and compare(B, A) report the same positions, each with
\* the same |change| and the opposite change, and the new components of one
\* are the removed components of the other.
C19_ReconciliationSymmetry ==
    rec_pc = "swapped" =>
        /\ {r.id : r \in Elems(rec_report.changes)} = {r.id : r \in Elems(rec_swapped.changes)}
        /\ Len(rec_report.changes) = Len(rec_swapped.changes)
        /\ \A r \in Elems(rec_report.changes) :
              \E q \in Elems(rec_swapped.changes) :
                  /\ q.id = r.id
                  /\ q.Change_Abs = r.Change_Abs
                  /\ q.Change = 0 - r.Change
        /\ rec_report.new_components = rec_swapped.removed_components
        /\ rec_report.removed_components = rec_swapped.new_components

C19_Witness ==
    /\ rec_pc = "swapped"
    /\ rec_report.new_components # <<>>
    /\ rec_swapped.removed_components # <<>>
    /\ \E r \in Elems(rec_report.changes) : r.Change < 0
    /\ \E r \in Elems(rec_report.changes) : r.Change > 5000000

-----------------------------------------------------------------------------
(* Claims about the versioned store (SpecStore) *)

\* the calendar: which day comes right before which
DayBefore == {<<20251129, 20251130>>, <<20251130, 20251201>>, <<20251201, 20251202>>}

\* the save_csv calls, among the first n, that wrote a table for the fund
\* under the day before date
SavesBefore(fund, date, n) ==
    {i \in 1 .. n : /\ fh_saves[i].fund = fund
                    /\ <<fh_saves[i].date, date>> \in DayBefore
                    /\ fh_saves[i].fault # "to_csv"}

\* C20: after any sequence of save_csv calls, get_previous_run(fund, d)
\* returns the table of the most recent save made for the fund under the day
\* d - 1, and None when no save was made for it under d - 1, whatever was
\* saved under older days or for other funds.
C20_PreviousRunLookup ==
    fh_pc = "looked" =>
        LET made == SavesBefore(fh_lookup.fund, fh_lookup.date, fh_lookup.at)
        IN IF made = {}
           THEN fh_lookup.result = NoFile
           ELSE fh_lookup.result =
                    fh_saves[CHOOSE i \in made : \A j \in made : j <= i].df

C20_Witness ==
    /\ fh_pc = "looked"
    /\ fh_lookup.date = 20251201
    /\ fh_lookup.result = TblB
    /\ Len(fh_saves) = 2
    /\ fh_saves[1].df = TblA /\ fh_saves[1].date = 20251130
    /\ fh_saves[1].fund = fh_lookup.fund /\ fh_saves[1].fault = "none"
    /\ fh_saves[2].date = 20251130 /\ fh_saves[2].fund = fh_lookup.fund

C20_WitnessNone ==
    /\ fh_pc = "looked"
    /\ fh_lookup.date = 20251201
    /\ fh_lookup.result = NoFile
    /\ \E i \in 1 .. Len(fh_saves) :
          fh_saves[i].fund = fh_lookup.fund /\ fh_saves[i].date = 20251129
             /\ fh_saves[i].fault = "none"
    /\ \E i \in 1 .. Len(fh_saves) :
          fh_saves[i].fund # fh_lookup.fund /\ fh_saves[i].date = 20251130
             /\ fh_saves[i].fault = "none"

\* the save_csv calls that wrote their csv files into the directory of call i
WritesInto(i) ==
    {j \in 1 .. Len(fh_saves) : /\ fh_saves[j].fund = fh_saves[i].fund
                                /\ fh_saves[j].date = fh_saves[i].date
                                /\ fh_saves[j].fault # "to_csv"}
DirOf(i) == fh_store[<<fh_saves[i].fund, fh_saves[i].date>>]

\* C21: a versioned file, and its metadata, once written by save_csv is never
\* changed or replaced by a later save_csv call, whenever the later call is
\* made (the same clock second included); a later save for the fund and date
\* adds a versioned file and overwrites only the latest file.
C21_VersionedImmutable ==
    \A i \in 1 .. Len(fh_saves) :
        /\ fh_saves[i].fault # "to_csv" =>
              /\ [ts |-> fh_saves[i].ts, df |-> fh_saves[i].df] \in DirOf(i).versions
              /\ Cardinality(DirOf(i).versions) = Cardinality(WritesInto(i))
              /\ DirOf(i).latest = fh_saves[CHOOSE j \in WritesInto(i) :
                                               \A k \in WritesInto(i) : k <= j].df
        /\ fh_saves[i].fault = "none" =>
              [ts |-> fh_saves[i].ts, version |-> fh_saves[i].version] \in DirOf(i).meta

\* C22: over the save_csv calls with metadata for one fund and date, the
\* version number a call writes is strictly greater than the one the previous
\* call wrote, and equals the number of versioned files of the date after the
\* call.
C22_VersionNumbersIncrease ==
    /\ \A i \in 1 .. Len(fh_saves) : \A j \in 1 .. Len(fh_saves) :
          (/\ i < j
           /\ fh_saves[i].fund = fh_saves[j].fund /\ fh_saves[i].date = fh_saves[j].date
           /\ fh_saves[i].fault = "none" /\ fh_saves[j].fault = "none") =>
              fh_saves[j].version > fh_saves[i].version
    /\ (fh_saves # <<>> /\ fh_saves[Len(fh_saves)].fault = "none") =>
          fh_saves[Len(fh_saves)].version = Cardinality(DirOf(Len(fh_saves)).versions)

-----------------------------------------------------------------------------
(* Further claims about the calculator (SpecCalc) *)

\* C23: when the total market cap of a proportional tier (fixed-income tier 3,
\* equity tier 2 or equity tier 3) is zero, calculate_weights fails with
\* ZeroAllocationBasis and produces no weight table: a table is returned only
\* for non-zero tier totals, and it holds no undefined weight.
C23_ZeroBasisGuard ==
    calc_pc = "done" =>
        /\ NonZeroTierTotals
        /\ \A s \in AllSymbols : ~IsNaN(Weight[s])

\* C24: for every portfolio and every market-cap input the weights of
\* LHMN34611 and of I00010 equal base_weight exactly.
C24_FixedTierInvariant ==
    calc_pc = "done" =>
        \A s \in {"LHMN34611", "I00010"} :
            Weight[s] = PORTFOLIO_CONFIGS[portfolio_type].base_weight
C24_Witness ==
    /\ calc_pc = "done"
    /\ portfolio_type = "LSE80"
    /\ mcap["I01018"] = 0 /\ mcap["I00586"] = MaxMcap
    /\ Weight["LHMN34611"] = 19250000 /\ Weight["I00010"] = 19250000
    /\ Weight["I01018"] # 19250000

\* C25: for every portfolio and every input of non-negative market caps with
\* non-zero tier totals, no weight of the table is negative.
C25_NonNegativity ==
    (calc_pc = "done" /\ NonZeroTierTotals) =>
        \A s \in AllSymbols : ~Lt(Weight[s], 0)
C25_Witness ==
    /\ calc_pc = "done" /\ NonZeroTierTotals
    /\ \E s \in FI_TIER_3 : mcap[s] = 0 /\ Weight[s] = 0
    /\ \E s \in FI_TIER_3 : Weight[s] > 0

\* C27: SP50 gets max(0, equity_allocation - (tier 1 + tier 2 + sum of tier 3))
\* when I00586 has weight exactly base_weight, and 0 whenever I00586 is below
\* base_weight, even if another tier-3 security was capped and part of
\* equity_allocation is left unassigned.
OtherEquityWeights ==
    Weight["I00010"] + Weight["I01018"] + Weight["I01270"] + NanSum(Weight, EQ_TIER_3)
C27_Tier4Overflow ==
    calc_pc = "done" =>
        LET config == PORTFOLIO_CONFIGS[portfolio_type]
            overflow == config.equity_allocation - OtherEquityWeights
        IN /\ Weight["I00586"] = config.base_weight =>
                  Weight["SP50"] = (IF overflow > 0 THEN overflow ELSE 0)
           /\ Lt(Weight["I00586"], config.base_weight) => Weight["SP50"] = 0
C27_Witness ==
    /\ calc_pc = "done"
    /\ Lt(Weight["I00586"], PORTFOLIO_CONFIGS[portfolio_type].base_weight)
    /\ \E s \in EQ_TIER_3 : Weight[s] = PORTFOLIO_CONFIGS[portfolio_type].base_weight
    /\ OtherEquityWeights < PORTFOLIO_CONFIGS[portfolio_type].equity_allocation
    /\ Weight["SP50"] = 0

\* C28: with w_i = (fixed_income_allocation - base_weight) * mcap_i / total,
\* a tier-3 security with w_i > base_weight ends at base_weight; the excess
\* (pool minus the sum of min(w_i, base_weight)) is added once to the
\* securities with w_i < base_weight in proportion to w_i, a security with
\* w_i = 0 getting none of it; the final weight is min(base_weight,
\* redistributed weight); when no w_i is below base_weight the excess stays
\* unassigned.
FiPool == PORTFOLIO_CONFIGS[portfolio_type].fixed_income_allocation
              - PORTFOLIO_CONFIGS[portfolio_type].base_weight
FiW(s) == (FiPool * mcap[s]) \div SumOver(mcap, FI_TIER_3)
FiLow == {s \in FI_TIER_3 : FiW(s) < PORTFOLIO_CONFIGS[portfolio_type].base_weight}
FiMin(a, b) == IF a < b THEN a ELSE b
FiExcess ==
    FiPool - SumOver([s \in FI_TIER_3 |->
                         FiMin(FiW(s), PORTFOLIO_CONFIGS[portfolio_type].base_weight)],
                     FI_TIER_3)
\* excess * w_i / (sum of the w_j below base_weight), as a ratio of market caps
FiExcessShare(s) ==
    IF SumOver(mcap, FiLow) = 0 THEN 0
    ELSE (FiExcess * mcap[s]) \div SumOver(mcap, FiLow)
C28_SinglePassRedistribution ==
    (calc_pc = "done" /\ SumOver(mcap, FI_TIER_3) > 0) =>
        \A s \in FI_TIER_3 :
            Weight[s] = IF s \in FiLow
                        THEN FiMin(PORTFOLIO_CONFIGS[portfolio_type].base_weight,
                                   FiW(s) + FiExcessShare(s))
                        ELSE PORTFOLIO_CONFIGS[portfolio_type].base_weight

-----------------------------------------------------------------------------
(* Further claims about the orchestrator and the gateway *)

\* C29: whenever run() returns 2, no fund of the run ended with status SUCCESS
\* and no fund output was persisted during the run; a failure after the fund
\* loop (sending the summary) does not turn a run in which a fund succeeded and
\* was persisted into exit code 2.
C29_ExitCode2NothingSucceeded ==
    (pl_pc = "returned" /\ exit_code = 2) =>
        /\ \A i \in 1 .. Len(results) : results[i].status # "SUCCESS"
        /\ store = scen.store0

\* C30: for every retry_attempts, 0 included, a call of get_market_caps or
\* get_returns makes at least one request attempt and ends by returning a
\* validated table or by raising an error; it never returns None.
C30_FetchReturnsTableOrFails ==
    gw_pc \in {"returned", "raised"} =>
        /\ Len(gw_log) >= 1
        /\ gw_pc = "returned" => gw_result # None
        /\ gw_pc = "raised" => gw_error # NoError

-----------------------------------------------------------------------------
(* Claims about interleaved fund runners (SpecInterleaved) *)

\* the environment of fund f with the timestamp its save got
EnvOf(f) == [il_scen.envs[f] EXCEPT !.ts = il_run[f].ts]
\* the funds one after the other, from the store st
RECURSIVE Sequential(_, _)
Sequential(st, fs) ==
    IF fs = <<>> THEN [store |-> st, results |-> <<>>]
    ELSE LET r == FundRunner_run(st, Head(fs), RunDate, EnvOf(Head(fs)))
             rest == Sequential(r.store, Tail(fs))
         IN [store |-> rest.store, results |-> <<r.result>> \o rest.results]
AllRunnersDone == \A f \in FundNames : il_run[f].pc = "done"

\* C26: running the calculate, validate, reconcile and save steps of several
\* funds in any interleaving gives each fund the same result record and leaves
\* the versioned store with the same content as running the funds one after
\* the other; the shared market and returns frames are never modified.
C26_FundsIndependent ==
    /\ il_shared = il_scen.shared0
    /\ AllRunnersDone =>
          LET seq == Sequential(il_scen.store0, ActiveFunds)
          IN /\ \A i \in 1 .. Len(ActiveFunds) :
                    il_run[ActiveFunds[i]].result = seq.results[i]
             /\ il_store = seq.store
C26_Witness ==
    /\ AllRunnersDone
    /\ \A f \in FundNames : il_run[f].result.status = "SUCCESS"
    /\ il_run["fundB"].ts < il_run["fundA"].ts
    /\ il_run["fundA"].recon_result.alerts # <<>>
    /\ il_store # il_scen.store0

====
